---- MODULE Spec2Model ----
(***************************************************************************)
(* Bit-granular Reader and Writer over Uint8Array / Uint16Array /          *)
(* Uint32Array buffers (imretro/bitio-ts).                                 *)
(*                                                                         *)
(* JavaScript's bitwise operators work on 32-bit two's-complement          *)
(* integers.  A value that takes part in a bitwise operation is modelled   *)
(* as its 32-bit pattern: the set of the positions (0 = least significant) *)
(* of its 1 bits.  An element of a typed array is stored as the pattern of *)
(* its unsigned value (no position at or above the element width).         *)
(* Positions, counts and indices are ordinary integers.                    *)
(***************************************************************************)
EXTENDS Integers, Sequences, FiniteSets, TLC

\* ------------------------------------------------------------------------
\* Bounds of the model
\* ------------------------------------------------------------------------
\* Largest number of elements of a buffer.
MaxLen == 2
\* How many calls past exhaustion the readBit-only history records.
MaxExtra == 2

\* ------------------------------------------------------------------------
\* 32-bit integer semantics of the JavaScript operators the code uses
\* ------------------------------------------------------------------------
WordSize == 32
Word == 0..(WordSize - 1)

\* The positions, counted from `from`, of the 1 digits of the binary numeral
\* of x >= 0.
RECURSIVE OneBits(_, _)
OneBits(x, from) ==
    IF x = 0 \/ from >= WordSize THEN {}
    ELSE (IF x % 2 = 1 THEN {from} ELSE {}) \cup OneBits(x \div 2, from + 1)

\* ToInt32 of a non-negative integer below 2^31 (a bit, a byte, 0xFF, 1).
ToInt32(x) == OneBits(x, 0)

RECURSIVE SumOfPowers(_)
SumOfPowers(positions) ==
    IF positions = {} THEN 0
    ELSE LET i == CHOOSE i \in positions : TRUE
         IN  2^i + SumOfPowers(positions \ {i})

\* The JavaScript number a 32-bit pattern stands for as the result of a
\* bitwise operator: a signed 32-bit integer.
Int32Value(v) ==
    IF (WordSize - 1) \in v
    THEN (SumOfPowers(v \ {WordSize - 1}) - 2^(WordSize - 2)) - 2^(WordSize - 2)
    ELSE SumOfPowers(v)

\* a << n : the shift count is taken modulo 32, zeros come in from the right.
ShiftLeft(v, n) ==
    LET s == n % WordSize
    IN  {i + s : i \in {j \in v : j + s <= WordSize - 1}}

\* a >> n : the shift count is taken modulo 32, the sign bit is replicated.
ShiftRight(v, n) ==
    LET s == n % WordSize
    IN  {i - s : i \in {j \in v : j >= s}}
            \cup (IF (WordSize - 1) \in v THEN (WordSize - s)..(WordSize - 1) ELSE {})

\* a | b
BitOr(a, b) == a \cup b

\* a & b
BitAnd(a, b) == a \cap b

\* a % b of JavaScript: the result has the sign of the dividend.
JsRem(a, b) == IF a >= 0 THEN a % b ELSE 0 - ((0 - a) % b)

\* ------------------------------------------------------------------------
\* Typed arrays
\* ------------------------------------------------------------------------
\* A typed array is [BYTES_PER_ELEMENT |-> 1 | 2 | 4, elems |-> sequence of
\* 32-bit patterns without positions >= 8 * BYTES_PER_ELEMENT].
ElementSizes == {1, 2, 4}

\* bytes[i]: an index outside the array reads undefined, which every bitwise
\* operator converts to 0.
Element(arr, i) ==
    IF i >= 0 /\ i < Len(arr.elems) THEN arr.elems[i + 1] ELSE ToInt32(0)

\* Conversion of a number to the element type on a store: the low
\* 8 * BYTES_PER_ELEMENT bits are kept.
ToElement(arr, v) == {i \in v : i < 8 * arr.BYTES_PER_ELEMENT}

\* bytes[i] = v: a store outside the array is ignored.
StoreElement(arr, i, v) ==
    IF i >= 0 /\ i < Len(arr.elems)
    THEN [arr EXCEPT !.elems[i + 1] = ToElement(arr, v)]
    ELSE arr

\* The element whose bytes, most significant first, are bs (Len(bs) is the
\* element size): the numeral 0xB1B2.. written byte by byte.
ElementOfBytes(bs) ==
    {i \in Word :
        /\ i < 8 * Len(bs)
        /\ (bs[Len(bs) - (i \div 8)] \div (2^(i % 8))) % 2 = 1}

\* ------------------------------------------------------------------------
\* Results of a call
\* ------------------------------------------------------------------------
Null == [tag |-> "null"]
Number(x) == [tag |-> "number", val |-> x]
Boolean(b) == [tag |-> "boolean", val |-> b]
Array(xs) == [tag |-> "array", val |-> xs]
\* throw new RangeError(message)
RangeError(message) == [tag |-> "RangeError", message |-> message]
Void == [tag |-> "undefined"]

\* A method applied to the object `self` yields the object after the call
\* and what the call returned or threw.
Outcome(self, ret) == [self |-> self, ret |-> ret]

\* for (i = lo; i <= hi; i += 1) body.  `at` holds the object (at.self), the
\* local variables and, once a return or a throw has left the loop,
\* at.done = TRUE with the result in at.ret.  The range is split in halves so
\* that a long loop does not nest deeply.
RECURSIVE For(_, _, _, _)
For(Body(_, _), at, lo, hi) ==
    \* `now` is the value of `at`, computed once.
    CHOOSE end \in
        { IF lo > hi \/ now.done THEN now
          ELSE IF lo = hi THEN Body(now, lo)
          ELSE For(Body, For(Body, now, lo, (lo + hi) \div 2), ((lo + hi) \div 2) + 1, hi) :
          now \in {at} } : TRUE

\* ------------------------------------------------------------------------
\* Reader (src/src/reader.ts).  self = [bytes, index, offset]
\* ------------------------------------------------------------------------
NewReader(bytes) == [bytes |-> bytes, index |-> 0, offset |-> 1]

bytesPerElement(self) == self.bytes.BYTES_PER_ELEMENT

bitsPerElement(self) == bytesPerElement(self) * 8

remaining(self) ==
    LET allBits == Len(self.bytes.elems) * bitsPerElement(self)
    IN  allBits - (self.index * bitsPerElement(self)) - self.offset + 1

byteIndex(self) ==
    (self.index * bytesPerElement(self)) + ((self.offset - 1) \div 8)

\* nextNumber that zeroes the element it leaves, as a destructive read would.
nextNumber_clears(self) ==
    [self EXCEPT !.index = @ + 1, !.offset = 1,
                 !.bytes = StoreElement(self.bytes, self.index, ToInt32(0))]

nextNumber(self) == [self EXCEPT !.index = @ + 1, !.offset = 1]

nextOffset(self, n) ==
    LET moved == [self EXCEPT !.offset = @ + n]
    IN  IF moved.offset > bitsPerElement(moved) THEN nextNumber(moved) ELSE moved

\* readBit taking the bits of an element least significant first.
readBit_lsbFirst(self) ==
    IF self.index >= Len(self.bytes.elems)
    THEN Outcome(self, Null)
    ELSE LET bit == ShiftRight(Element(self.bytes, self.index), self.offset - 1)
         IN  Outcome(nextOffset(self, 1),
                     Number(IF Int32Value(BitAnd(bit, ToInt32(1))) = 0 THEN 0 ELSE 1))

\* readBit that answers 0 instead of null at the end of the array.
readBit_zeroAtEnd(self) ==
    IF self.index >= Len(self.bytes.elems)
    THEN Outcome(self, Number(0))
    ELSE LET bit == ShiftRight(Element(self.bytes, self.index),
                               bitsPerElement(self) - self.offset)
         IN  Outcome(nextOffset(self, 1),
                     Number(IF Int32Value(BitAnd(bit, ToInt32(1))) = 0 THEN 0 ELSE 1))

readBit(self) ==
    IF self.index >= Len(self.bytes.elems)
    THEN Outcome(self, Null)
    ELSE LET bit == ShiftRight(Element(self.bytes, self.index),
                               bitsPerElement(self) - self.offset)
         IN  Outcome(nextOffset(self, 1),
                     Number(IF Int32Value(BitAnd(bit, ToInt32(1))) = 0 THEN 0 ELSE 1))

\* One iteration of the loop of readBits.  `this.readBit() as Bit` is only a
\* cast: a null would take part in the shift as 0.
readBitsStep(n, at, i) ==
    LET got == readBit(at.self)
        bit == IF got.ret.tag = "null" THEN 0 ELSE got.ret.val
    IN  [at EXCEPT !.self = got.self,
                   !.result = BitOr(at.result, ShiftLeft(ToInt32(bit), n - i))]

\* readBits comparing n with the size of the array instead of what remains.
readBits_checksTotal(self, n) ==
    IF n > Len(self.bytes.elems) * bitsPerElement(self)
    THEN Outcome(self, RangeError("n exceeds the number of remaining bits"))
    ELSE LET end == For(LAMBDA at, i : readBitsStep(n, at, i),
                        [self |-> self, done |-> FALSE, result |-> ToInt32(0)], 1, n)
         IN  Outcome(end.self, Number(Int32Value(end.result)))

readBits(self, n) ==
    IF n > remaining(self)
    THEN Outcome(self, RangeError("n exceeds the number of remaining bits"))
    ELSE LET end == For(LAMBDA at, i : readBitsStep(n, at, i),
                        [self |-> self, done |-> FALSE, result |-> ToInt32(0)], 1, n)
         IN  Outcome(end.self, Number(Int32Value(end.result)))

\* readByte taking the bytes of an element least significant first.
readByte_lsbFirst(self) ==
    IF JsRem(remaining(self), 8) # 0
    THEN Outcome(self, RangeError("Cannot read a partial byte as a full byte"))
    ELSE LET shift == (byteIndex(self) % bytesPerElement(self)) * 8
             b == ShiftRight(Element(self.bytes, self.index), shift)
         IN  Outcome(nextOffset(self, 8), Number(Int32Value(BitAnd(b, ToInt32(255)))))

readByte(self) ==
    IF JsRem(remaining(self), 8) # 0
    THEN Outcome(self, RangeError("Cannot read a partial byte as a full byte"))
    ELSE LET shift == ((bytesPerElement(self) - 1)
                        - (byteIndex(self) % bytesPerElement(self))) * 8
             b == ShiftRight(Element(self.bytes, self.index), shift)
         IN  Outcome(nextOffset(self, 8), Number(Int32Value(BitAnd(b, ToInt32(255)))))

\* One iteration of the loop of readBytes: bytes[i] = this.readByte(); an
\* exception thrown by readByte leaves the loop.
readBytesStep(at, i) ==
    LET got == readByte(at.self)
    IN  IF got.ret.tag = "RangeError"
        THEN [at EXCEPT !.self = got.self, !.done = TRUE, !.ret = got.ret]
        ELSE [at EXCEPT !.self = got.self, !.bytes = Append(@, got.ret)]

readBytes(self, n) ==
    IF n * 8 > remaining(self)
    THEN Outcome(self, RangeError("Not enough bytes to read."))
    ELSE LET end == For(readBytesStep,
                        [self |-> self, done |-> FALSE, ret |-> Void, bytes |-> << >>],
                        0, n - 1)
         IN  Outcome(end.self, IF end.done THEN end.ret ELSE Array(end.bytes))

readAll(self) == readBits(self, remaining(self))

\* What the getters of the Reader give.
QueryResults(self) ==
    [tag |-> "queries",
     remaining |-> remaining(self),
     byteIndex |-> byteIndex(self),
     bytesPerElement |-> bytesPerElement(self),
     bitsPerElement |-> bitsPerElement(self)]

\* readBitsSafe(n) as the specification describes it (its code is not among
\* the sources): like n repeated readBit calls, never failing, the results
\* collected in order, null included once the data is exhausted.
readBitsSafe(self, n) ==
    LET end == For(LAMBDA at, i :
                       LET got == readBit(at.self)
                       IN  [at EXCEPT !.self = got.self, !.result = Append(@, got.ret)],
                   [self |-> self, done |-> FALSE, result |-> << >>], 1, n)
    IN  Outcome(end.self, Array(end.result))

\* The result of one next() call on a generator: { value, done }.
IteratorResult(value, done) ==
    [tag |-> "IteratorResult", value |-> value, done |-> done]

\* reader[Symbol.iterator](): the generator object, which has not run yet.
\* `at` is the place where the generator is suspended ("start", "yield", or
\* "return" once it has returned) and `count` its local variable.
Symbol_iterator == [at |-> "start", count |-> 0]

\* Symbol_iterator_next without the count += 1 that follows the yield.
Symbol_iterator_next_noCount(gen, self) ==
    IF gen.at = "return"
    THEN [gen |-> gen, self |-> self, ret |-> IteratorResult(Void, TRUE)]
    ELSE LET got == readBit(self)
         IN  IF got.ret = Null
             THEN [gen |-> [at |-> "return", count |-> gen.count], self |-> got.self,
                   ret |-> IteratorResult(Number(gen.count), TRUE)]
             ELSE [gen |-> [at |-> "yield", count |-> gen.count], self |-> got.self,
                   ret |-> IteratorResult(got.ret, FALSE)]

\* One next() call on the generator `gen` of the Reader `self`. A generator
\* suspended at its yield first runs count += 1; then the loop reads a bit and
\* either returns count or yields the bit. A generator that has returned
\* answers { value: undefined, done: true } and runs nothing.
Symbol_iterator_next(gen, self) ==
    IF gen.at = "return"
    THEN [gen |-> gen, self |-> self, ret |-> IteratorResult(Void, TRUE)]
    ELSE LET count == IF gen.at = "yield" THEN gen.count + 1 ELSE gen.count
             got == readBit(self)
         IN  IF got.ret = Null
             THEN [gen |-> [at |-> "return", count |-> count], self |-> got.self,
                   ret |-> IteratorResult(Number(count), TRUE)]
             ELSE [gen |-> [at |-> "yield", count |-> count], self |-> got.self,
                   ret |-> IteratorResult(got.ret, FALSE)]

\* ------------------------------------------------------------------------
\* BitIterator, the base class of Writer.  self = [bytes, index, offset]
\* ------------------------------------------------------------------------
NewBitIterator(bytes) == [bytes |-> bytes, index |-> 0, offset |-> 1]

BitIterator_bytesPerElement(self) == self.bytes.BYTES_PER_ELEMENT

BitIterator_bitsPerElement(self) == BitIterator_bytesPerElement(self) * 8

BitIterator_remaining(self) ==
    LET allBits == Len(self.bytes.elems) * BitIterator_bitsPerElement(self)
    IN  allBits - (self.index * BitIterator_bitsPerElement(self)) - self.offset + 1

BitIterator_byteIndex(self) ==
    (self.index * BitIterator_bytesPerElement(self)) + ((self.offset - 1) \div 8)

BitIterator_byteCount(self) ==
    BitIterator_bytesPerElement(self) * Len(self.bytes.elems)

BitIterator_nextNumber(self) == [self EXCEPT !.index = @ + 1, !.offset = 1]

\* nextOffset that moves to the next element one bit too late.
BitIterator_nextOffset_lateWrap(self, n) ==
    LET moved == [self EXCEPT !.offset = @ + n]
    IN  IF moved.offset > BitIterator_bitsPerElement(moved) + 1
        THEN BitIterator_nextNumber(moved)
        ELSE moved

BitIterator_nextOffset(self, n) ==
    LET moved == [self EXCEPT !.offset = @ + n]
    IN  IF moved.offset > BitIterator_bitsPerElement(moved)
        THEN BitIterator_nextNumber(moved)
        ELSE moved

\* ------------------------------------------------------------------------
\* Writer (src/src/writer.ts)
\* ------------------------------------------------------------------------
NewWriter(dst) == NewBitIterator(dst)

\* this.bytes[this.index] = v: an assignment in place of the |=.
OrIntoElement_assign(self, v) ==
    [self EXCEPT !.bytes = StoreElement(self.bytes, self.index, v)]

\* this.bytes[this.index] |= v | (v >> 1): the bit after the one written is
\* set along with it.
OrIntoElement_smear(self, v) ==
    [self EXCEPT !.bytes =
        StoreElement(self.bytes, self.index,
                     BitOr(Element(self.bytes, self.index),
                           BitOr(v, ShiftRight(v, 1))))]

\* this.bytes[this.index] |= v
OrIntoElement(self, v) ==
    [self EXCEPT !.bytes =
        StoreElement(self.bytes, self.index,
                     BitOr(Element(self.bytes, self.index), v))]

\* writeBit with the end of the array one element too far.
writeBit_pastEnd(self, bit) ==
    IF self.index > Len(self.bytes.elems)
    THEN Outcome(self, Boolean(FALSE))
    ELSE Outcome(
            BitIterator_nextOffset(
                OrIntoElement(self,
                    ShiftLeft(ToInt32(bit),
                              BitIterator_bitsPerElement(self) - self.offset)),
                1),
            Boolean(TRUE))

\* writeBit filling an element from its least significant bit.
writeBit_lsbFirst(self, bit) ==
    IF self.index >= Len(self.bytes.elems)
    THEN Outcome(self, Boolean(FALSE))
    ELSE Outcome(
            BitIterator_nextOffset(
                OrIntoElement(self, ShiftLeft(ToInt32(bit), self.offset - 1)), 1),
            Boolean(TRUE))

writeBit(self, bit) ==
    IF self.index >= Len(self.bytes.elems)
    THEN Outcome(self, Boolean(FALSE))
    ELSE Outcome(
            BitIterator_nextOffset(
                OrIntoElement(self,
                    ShiftLeft(ToInt32(bit),
                              BitIterator_bitsPerElement(self) - self.offset)),
                1),
            Boolean(TRUE))

Min(a, b) == IF a <= b THEN a ELSE b

\* xs.slice(0, end): a negative end counts from the end of xs.
Slice(xs, end) ==
    LET last == IF end < 0
                THEN (IF Len(xs) + end < 0 THEN 0 ELSE Len(xs) + end)
                ELSE Min(end, Len(xs))
    IN  SubSeq(xs, 1, last)

\* writeBits(bits) for an array of bits, without the cut to what remains.
writeBitsArray_noTruncate(self, bits) ==
    LET end == For(LAMBDA at, k : [at EXCEPT !.self = writeBit(at.self, bits[k]).self],
                   [self |-> self, done |-> FALSE], 1, Len(bits))
    IN  Outcome(end.self, Number(Len(bits)))

\* writeBits(bits) for an array of bits;
\* writable.forEach((bit) => this.writeBit(bit)) drops the results.
writeBitsArray(self, bits) ==
    LET writable == Slice(bits, Min(Len(bits), BitIterator_remaining(self)))
        end == For(LAMBDA at, k : [at EXCEPT !.self = writeBit(at.self, writable[k]).self],
                   [self |-> self, done |-> FALSE], 1, Len(writable))
    IN  Outcome(end.self, Number(Len(writable)))

\* One iteration of the loop of writeBits({ bits: bitNumber, n }).
writeBitsStep(bitNumber, n, at, i) ==
    LET shift == (n - i) - 1
        bit == Int32Value(BitAnd(ShiftRight(ToInt32(bitNumber), shift), ToInt32(1)))
        got == writeBit(at.self, bit)
    IN  IF ~got.ret.val
        THEN [at EXCEPT !.self = got.self, !.done = TRUE, !.ret = Number(i)]
        ELSE [at EXCEPT !.self = got.self]

\* writeBits(bits) for bits = { bits: bitNumber, n }.
writeBitsNumber(self, bitNumber, n) ==
    IF n < 0
    THEN Outcome(self, RangeError("n cannot be less than 0"))
    ELSE LET end == For(LAMBDA at, i : writeBitsStep(bitNumber, n, at, i),
                        [self |-> self, done |-> FALSE, ret |-> Void], 0, n - 1)
         IN  Outcome(end.self, IF end.done THEN end.ret ELSE Number(n))

\* writeByte filling an element from its least significant byte.
writeByte_lsbFirst(self, b) ==
    IF b < 0 \/ b > 255
    THEN Outcome(self, RangeError("b should be within [0, 256)"))
    ELSE IF JsRem(BitIterator_remaining(self), 8) # 0
    THEN Outcome(self, RangeError("Cannot write a full byte with a pending partial byte"))
    ELSE IF BitIterator_byteIndex(self) >= BitIterator_byteCount(self)
    THEN Outcome(self, Boolean(FALSE))
    ELSE LET shift == (BitIterator_byteIndex(self) % BitIterator_bytesPerElement(self)) * 8
         IN  Outcome(
                BitIterator_nextOffset(
                    OrIntoElement(self, ShiftLeft(ToInt32(b), shift)), 8),
                Boolean(TRUE))

\* writeByte looking for a pending partial byte before it looks at b.
writeByte_partialCheckFirst(self, b) ==
    IF JsRem(BitIterator_remaining(self), 8) # 0
    THEN Outcome(self, RangeError("Cannot write a full byte with a pending partial byte"))
    ELSE IF b < 0 \/ b > 255
    THEN Outcome(self, RangeError("b should be within [0, 256)"))
    ELSE IF BitIterator_byteIndex(self) >= BitIterator_byteCount(self)
    THEN Outcome(self, Boolean(FALSE))
    ELSE LET shift == ((BitIterator_bytesPerElement(self) - 1)
                        - (BitIterator_byteIndex(self) % BitIterator_bytesPerElement(self))) * 8
         IN  Outcome(
                BitIterator_nextOffset(
                    OrIntoElement(self, ShiftLeft(ToInt32(b), shift)), 8),
                Boolean(TRUE))

\* writeByte without the check for the end of the array.
writeByte_noEndCheck(self, b) ==
    IF b < 0 \/ b > 255
    THEN Outcome(self, RangeError("b should be within [0, 256)"))
    ELSE IF JsRem(BitIterator_remaining(self), 8) # 0
    THEN Outcome(self, RangeError("Cannot write a full byte with a pending partial byte"))
    ELSE LET shift == ((BitIterator_bytesPerElement(self) - 1)
                        - (BitIterator_byteIndex(self) % BitIterator_bytesPerElement(self))) * 8
         IN  Outcome(
                BitIterator_nextOffset(
                    OrIntoElement(self, ShiftLeft(ToInt32(b), shift)), 8),
                Boolean(TRUE))

\* writeByte without the check for a pending partial byte.
writeByte_noPartialCheck(self, b) ==
    IF b < 0 \/ b > 255
    THEN Outcome(self, RangeError("b should be within [0, 256)"))
    ELSE IF BitIterator_byteIndex(self) >= BitIterator_byteCount(self)
    THEN Outcome(self, Boolean(FALSE))
    ELSE LET shift == ((BitIterator_bytesPerElement(self) - 1)
                        - (BitIterator_byteIndex(self) % BitIterator_bytesPerElement(self))) * 8
         IN  Outcome(
                BitIterator_nextOffset(
                    OrIntoElement(self, ShiftLeft(ToInt32(b), shift)), 8),
                Boolean(TRUE))

\* The message of the first RangeError ends in ", want ${b}" in the code; the
\* argument is in the record of the call.
writeByte(self, b) ==
    IF b < 0 \/ b > 255
    THEN Outcome(self, RangeError("b should be within [0, 256)"))
    ELSE IF JsRem(BitIterator_remaining(self), 8) # 0
    THEN Outcome(self, RangeError("Cannot write a full byte with a pending partial byte"))
    ELSE IF BitIterator_byteIndex(self) >= BitIterator_byteCount(self)
    THEN Outcome(self, Boolean(FALSE))
    ELSE LET shift == ((BitIterator_bytesPerElement(self) - 1)
                        - (BitIterator_byteIndex(self) % BitIterator_bytesPerElement(self))) * 8
         IN  Outcome(
                BitIterator_nextOffset(
                    OrIntoElement(self, ShiftLeft(ToInt32(b), shift)), 8),
                Boolean(TRUE))

\* One call of the callback of writable.forEach((b) => this.writeByte(b)); an
\* exception leaves the loop.
writeEachByte(writable, at, k) ==
    LET got == writeByte(at.self, writable[k])
    IN  IF got.ret.tag = "RangeError"
        THEN [at EXCEPT !.self = got.self, !.done = TRUE, !.ret = got.ret]
        ELSE [at EXCEPT !.self = got.self]

\* writeBytes(bytes) for an array of bytes, without the cut to what remains.
writeBytesArray_noTruncate(self, bytes) ==
    LET end == For(LAMBDA at, k : writeEachByte(bytes, at, k),
                   [self |-> self, done |-> FALSE, ret |-> Void], 1, Len(bytes))
    IN  Outcome(end.self, IF end.done THEN end.ret ELSE Number(Len(bytes)))

\* writeBytes(bytes) for an array of bytes.
writeBytesArray(self, bytes) ==
    LET writable == Slice(bytes, Min(Len(bytes), BitIterator_remaining(self) \div 8))
        end == For(LAMBDA at, k : writeEachByte(writable, at, k),
                   [self |-> self, done |-> FALSE, ret |-> Void], 1, Len(writable))
    IN  Outcome(end.self, IF end.done THEN end.ret ELSE Number(Len(writable)))

\* One iteration of the loop of writeBytes({ bytes: byteNumber, n }).
writeBytesStep(byteNumber, n, at, i) ==
    LET shift == ((n - i) - 1) * 8
        b == Int32Value(BitAnd(ShiftRight(ToInt32(byteNumber), shift), ToInt32(255)))
        got == writeByte(at.self, b)
    IN  IF got.ret.tag = "RangeError"
        THEN [at EXCEPT !.self = got.self, !.done = TRUE, !.ret = got.ret]
        ELSE IF ~got.ret.val
        THEN [at EXCEPT !.self = got.self, !.done = TRUE, !.ret = Number(i)]
        ELSE [at EXCEPT !.self = got.self]

\* writeBytes(bytes) for bytes = { bytes: byteNumber, n }.
writeBytesNumber(self, byteNumber, n) ==
    IF n < 0
    THEN Outcome(self, RangeError("n cannot be less than 0"))
    ELSE LET end == For(LAMBDA at, i : writeBytesStep(byteNumber, n, at, i),
                        [self |-> self, done |-> FALSE, ret |-> Void], 0, n - 1)
         IN  Outcome(end.self, IF end.done THEN end.ret ELSE Number(n))

\* ------------------------------------------------------------------------
\* Inputs
\* ------------------------------------------------------------------------
\* Element values of the arrays handed to a Reader, given by their bytes:
\* 0xAB123456 (top bit 1) and 0x1BD88001 (top bit 0), cut to the element size.
ElementValues(size) ==
    << ElementOfBytes(SubSeq(<<171, 18, 52, 86>>, 1, size)),
       ElementOfBytes(SubSeq(<<27, 216, 128, 1>>, 1, size)) >>

\* new Uint8Array([..]), new Uint16Array([..]), new Uint32Array([..]): the
\* two element values in turn, starting with either.
TypedArrays ==
    { [BYTES_PER_ELEMENT |-> a[1],
       elems |-> [i \in 1..a[2] |-> ElementValues(a[1])[((i + a[3]) % 2) + 1]]] :
        a \in ElementSizes \X (0..MaxLen) \X {0, 1} }

\* Arrays that hold data already when a Writer is constructed over them: the
\* typed arrays above that start with 0xAB..., one element or more.
UsedArrays ==
    { a \in TypedArrays :
        Len(a.elems) > 0 /\ a.elems[1] = ElementValues(a.BYTES_PER_ELEMENT)[1] }

\* new Uint8Array(len), new Uint16Array(len), new Uint32Array(len)
ZeroFilledArrays ==
    { [BYTES_PER_ELEMENT |-> size, elems |-> [i \in 1..len |-> ToInt32(0)]] :
        <<size, len>> \in ElementSizes \X (0..MaxLen) }

\* What the caller of a Writer wants to write: a bit pattern, repeated for as
\* long as the caller keeps writing.
Messages ==
    { <<1, 1, 0>>,
      <<1, 0, 1, 0, 1, 0, 1, 1, 0, 0, 0, 1, 0, 0, 1, 0>> }

\* The n bits of the message that follow its first `done` bits.
NextBits(msg, done, n) == [k \in 1..n |-> msg[((done + k - 1) % Len(msg)) + 1]]

\* The number whose binary digits, most significant first, are bits.
ValueOf(bits) ==
    SumOfPowers({Len(bits) - k : k \in {j \in 1..Len(bits) : bits[j] = 1}})

\* The 8 binary digits of a byte, most significant first.
BitsOfByte(b) == [k \in 1..8 |-> (b \div (2^(8 - k))) % 2]

\* Arguments of readBits and readBytes.
BitCounts == {0, 1, 12, 32, 33}
ByteCounts == {0, 1, 5}
SafeBitCounts == {0, 9}
\* Lengths of the bit arrays passed to writeBits.
BitArrayLengths == {0, 3, 17}
\* n of writeBits({ bits, n }).
BitNumberCounts == {-1, 0, 12, 33}
\* Lengths of the byte arrays passed to writeBytes.
ByteArrayLengths == {0, 2, 5}
\* n of writeBytes({ bytes, n }).
ByteNumberCounts == {-1, 3, 5}

\* The n bytes of the message that follow its first `done` bits.
NextBytes(msg, done, n) ==
    [k \in 1..n |-> ValueOf(NextBits(msg, done + 8 * (k - 1), 8))]

\* The byte arrays passed to writeBytes: the next bytes of the message, and
\* two bytes of which the second is out of range.
ByteArrays(msg, done) ==
    { NextBytes(msg, done, len) : len \in ByteArrayLengths }
        \cup { [NextBytes(msg, done, 2) EXCEPT ![2] = 256] }

\* The bits writeBits({ bits: bitNumber, n }) passes to writeBit, in order:
\* (bitNumber >> ((n - i) - 1)) & 1 for i = 0 .. n - 1.
BitsOfNumber(bitNumber, n) ==
    [k \in 1..n |->
        Int32Value(BitAnd(ShiftRight(ToInt32(bitNumber), n - k), ToInt32(1)))]

\* The bytes writeBytes({ bytes: byteNumber, n }) passes to writeByte, in
\* order: (byteNumber >> (((n - i) - 1) * 8)) & 0xFF for i = 0 .. n - 1.
BytesOfNumber(byteNumber, n) ==
    [k \in 1..n |->
        Int32Value(BitAnd(ShiftRight(ToInt32(byteNumber), (n - k) * 8), ToInt32(255)))]

\* The bits of a sequence of bytes, each byte most significant bit first.
BitsOfBytes(bs) ==
    [k \in 1..(8 * Len(bs)) |-> BitsOfByte(bs[((k - 1) \div 8) + 1])[((k - 1) % 8) + 1]]

\* ------------------------------------------------------------------------
\* State
\* ------------------------------------------------------------------------
VARIABLES
    obj,        \* "Reader" or "Writer": the class of the object in use;
                \* "discarded" once the caller is done with it
    bytes,      \* this.bytes: the typed array
    index,      \* this.index
    offset,     \* this.offset
    call,       \* the last call made: [name |-> ..] and its arguments
    ret,        \* what the last call returned or threw
    pre,        \* the object as it was before the last call
    history,    \* the results of the readBit calls, while readBit is the
                \* only method called on this Reader
    onlyReadBit,\* whether readBit is the only method called on this Reader
    message,    \* the bit pattern the caller of the Writer is writing
    written,    \* the bits the Writer has reported as written, in order
    writeBitHistory,
                \* the results of the writeBit calls, while writeBit is the
                \* only method called on this Writer
    onlyWriteBit,
                \* whether writeBit is the only method called on this Writer
    generator,  \* the generator the caller of the Reader is iterating with:
                \* where it is suspended ("none" without one) and its count
    original,   \* the typed array as it was when the object was constructed
    iterated    \* where the cursor was when the generator was made, and the
                \* results of its next() calls up to the one it returned at

vars == <<obj, bytes, index, offset, call, ret, pre, history, onlyReadBit,
          message, written, writeBitHistory, onlyWriteBit, generator, iterated,
          original>>

This == [bytes |-> bytes, index |-> index, offset |-> offset]

\* The number of bits of the typed array.
Capacity == Len(bytes.elems) * 8 * bytes.BYTES_PER_ELEMENT

\* The Writer was constructed over a zero-filled array, as new Uint8Array(len)
\* gives one.
ZeroFilled == original \in ZeroFilledArrays

\* The caller holds no generator.
NoGenerator == [at |-> "none", count |-> 0]
NotIterated == [from |-> [index |-> 0, offset |-> 1], results |-> << >>]

\* The caller holds a generator that has not returned yet.
Iterating == generator.at \in {"start", "yield"}

\* The state after the constructor: the cursor at the first bit of the array.
Constructed ==
    /\ original = bytes
    /\ index = 0
    /\ offset = 1
    /\ call = [name |-> "constructor"]
    /\ ret = Void
    /\ pre = [bytes |-> bytes, index |-> 0, offset |-> 1]
    /\ history = << >>
    /\ onlyReadBit = TRUE
    /\ writeBitHistory = << >>
    /\ onlyWriteBit = TRUE
    /\ written = << >>
    /\ generator = NoGenerator
    /\ iterated = NotIterated

\* new Reader(bytes)
ReaderInit ==
    /\ obj = "Reader"
    /\ bytes \in TypedArrays
    /\ message = << >>
    /\ Constructed

\* new Writer(bytes), and the bit pattern its caller is going to write; over
\* an array that holds data already the caller writes the longer pattern.
WriterInit ==
    /\ obj = "Writer"
    /\ \/ /\ bytes \in ZeroFilledArrays
          /\ message \in Messages
       \/ /\ bytes \in UsedArrays
          /\ message \in {m \in Messages : Len(m) > 8}
    /\ Constructed

Init == ReaderInit \/ WriterInit

\* The object takes the state and the result of a finished call.
Returns(c, out) ==
    \E o \in {out} :
        /\ call' = c
        /\ pre' = This
        /\ bytes' = o.self.bytes
        /\ index' = o.self.index
        /\ offset' = o.self.offset
        /\ ret' = o.ret

\* ------------------------------------------------------------------------
\* Reader calls
\* ------------------------------------------------------------------------
\* The caller drives a generator to its return before it calls another method
\* of the Reader, and keeps no generator that has returned.
DropGenerator ==
    /\ ~Iterating
    /\ generator' = NoGenerator
    /\ iterated' = NotIterated

\* The history records at most MaxExtra calls past the end of the array.
ReadBit ==
    /\ obj = "Reader"
    /\ DropGenerator
    /\ onlyReadBit => Len(history) < Capacity + MaxExtra
    /\ Returns([name |-> "readBit"], readBit(This))
    /\ history' = IF onlyReadBit THEN Append(history, ret') ELSE history
    /\ UNCHANGED <<original, obj, onlyReadBit, message, written, writeBitHistory,
                   onlyWriteBit>>

ReadBits ==
    /\ obj = "Reader"
    /\ DropGenerator
    /\ \E n \in BitCounts : Returns([name |-> "readBits", n |-> n], readBits(This, n))
    /\ history' = << >>
    /\ onlyReadBit' = FALSE
    /\ UNCHANGED <<original, obj, message, written, writeBitHistory, onlyWriteBit>>

\* The guard stops the model once the cursor is MaxExtra elements past the end.
ReadByte ==
    /\ obj = "Reader"
    /\ DropGenerator
    /\ index < Len(bytes.elems) + MaxExtra
    /\ Returns([name |-> "readByte"], readByte(This))
    /\ history' = << >>
    /\ onlyReadBit' = FALSE
    /\ UNCHANGED <<original, obj, message, written, writeBitHistory, onlyWriteBit>>

ReadBytes ==
    /\ obj = "Reader"
    /\ DropGenerator
    /\ \E n \in ByteCounts : Returns([name |-> "readBytes", n |-> n], readBytes(This, n))
    /\ history' = << >>
    /\ onlyReadBit' = FALSE
    /\ UNCHANGED <<original, obj, message, written, writeBitHistory, onlyWriteBit>>

ReadAll ==
    /\ obj = "Reader"
    /\ DropGenerator
    /\ Returns([name |-> "readAll"], readAll(This))
    /\ history' = << >>
    /\ onlyReadBit' = FALSE
    /\ UNCHANGED <<original, obj, message, written, writeBitHistory, onlyWriteBit>>

ReadBitsSafe ==
    /\ obj = "Reader"
    /\ DropGenerator
    /\ \E n \in SafeBitCounts :
        Returns([name |-> "readBitsSafe", n |-> n], readBitsSafe(This, n))
    /\ history' = << >>
    /\ onlyReadBit' = FALSE
    /\ UNCHANGED <<original, obj, message, written, writeBitHistory, onlyWriteBit>>

\* The caller reads the four getters of the Reader: remaining, byteIndex,
\* bytesPerElement and bitsPerElement. None of them assigns anything.
Queries ==
    /\ obj = "Reader"
    /\ call' = [name |-> "queries"]
    /\ ret' = QueryResults(This)
    /\ pre' = This
    /\ UNCHANGED <<original, obj, bytes, index, offset, history, onlyReadBit, message,
                   written, writeBitHistory, onlyWriteBit, generator, iterated>>

\* reader[Symbol.iterator]() that restarts the Reader at its first bit.
IteratorStart_rewinds ==
    /\ obj = "Reader"
    /\ generator' = Symbol_iterator
    /\ iterated' = [from |-> [index |-> index, offset |-> offset], results |-> << >>]
    /\ call' = [name |-> "Symbol.iterator"]
    /\ ret' = Void
    /\ pre' = This
    /\ index' = 0
    /\ offset' = 1
    /\ history' = << >>
    /\ onlyReadBit' = FALSE
    /\ UNCHANGED <<original, obj, bytes, message, written, writeBitHistory,
                   onlyWriteBit>>

\* const iter = reader[Symbol.iterator](): the caller makes a generator, which
\* runs nothing of its body yet.
IteratorStart ==
    /\ obj = "Reader"
    /\ generator' = Symbol_iterator
    /\ iterated' = [from |-> [index |-> index, offset |-> offset], results |-> << >>]
    /\ call' = [name |-> "Symbol.iterator"]
    /\ ret' = Void
    /\ pre' = This
    /\ history' = << >>
    /\ onlyReadBit' = FALSE
    /\ UNCHANGED <<original, obj, bytes, index, offset, message, written,
                   writeBitHistory,
                   onlyWriteBit>>

\* iter.next(), on a generator that has returned as well.
IteratorNext ==
    /\ obj = "Reader"
    /\ generator.at # "none"
    /\ \E step \in {Symbol_iterator_next(generator, This)} :
        /\ Returns([name |-> "next"], Outcome(step.self, step.ret))
        /\ generator' = step.gen
        /\ iterated' = IF generator.at = "return" THEN iterated
                       ELSE [iterated EXCEPT !.results = Append(@, step.ret)]
    /\ UNCHANGED <<original, obj, history, onlyReadBit, message, written,
                   writeBitHistory,
                   onlyWriteBit>>

\* ------------------------------------------------------------------------
\* Writer calls
\* ------------------------------------------------------------------------
\* The history records at most MaxExtra calls past the end of the array.
WriteBit ==
    /\ obj = "Writer"
    /\ onlyWriteBit => Len(writeBitHistory) < Capacity + MaxExtra
    /\ LET bit == NextBits(message, Len(written), 1)[1]
       IN  /\ Returns([name |-> "writeBit", bit |-> bit], writeBit(This, bit))
           /\ written' = IF ret'.val THEN Append(written, bit) ELSE written
    /\ writeBitHistory' = IF onlyWriteBit THEN Append(writeBitHistory, ret')
                          ELSE writeBitHistory
    /\ UNCHANGED <<original, obj, history, onlyReadBit, message, onlyWriteBit,
                   generator, iterated>>

\* Another method than writeBit is called on the Writer.
NotOnlyWriteBit ==
    /\ writeBitHistory' = << >>
    /\ onlyWriteBit' = FALSE

\* The bits of `passed` that the call took: as many as the cursor moved by.
Taken(passed) ==
    SubSeq(passed, 1, BitIterator_remaining(This)
                        - BitIterator_remaining([bytes |-> bytes', index |-> index',
                                                 offset |-> offset']))

WriteBitsArray ==
    /\ obj = "Writer"
    /\ \E len \in BitArrayLengths :
        LET bits == NextBits(message, Len(written), len)
        IN  /\ Returns([name |-> "writeBits", form |-> "array", bits |-> bits],
                       writeBitsArray(This, bits))
            /\ written' = written \o SubSeq(bits, 1, ret'.val)
    /\ NotOnlyWriteBit
    /\ UNCHANGED <<original, obj, history, onlyReadBit, message, generator, iterated>>

WriteByte ==
    /\ obj = "Writer"
    /\ \E b \in {-1, 256, ValueOf(NextBits(message, Len(written), 8))} :
        /\ Returns([name |-> "writeByte", b |-> b], writeByte(This, b))
        /\ written' = IF ret'.tag = "boolean" /\ ret'.val
                      THEN written \o BitsOfByte(b)
                      ELSE written
    /\ NotOnlyWriteBit
    /\ UNCHANGED <<original, obj, history, onlyReadBit, message, generator, iterated>>

\* The number passed holds the next n bits of the message, 12 at most. A
\* Writer that was asked for more bits than the 32 of a bitwise operand is not
\* followed any further.
WriteBitsNumber ==
    /\ obj = "Writer"
    /\ \E n \in BitNumberCounts :
        \E arg \in {[bits |-> ValueOf(NextBits(message, Len(written), Min(n, 12))),
                      n |-> n]} :
            /\ Returns([name |-> "writeBits", form |-> "number",
                        bitNumber |-> arg.bits, n |-> arg.n],
                       writeBitsNumber(This, arg.bits, arg.n))
            /\ written' = written \o Taken(BitsOfNumber(arg.bits, arg.n))
            /\ obj' = IF n > WordSize THEN "discarded" ELSE obj
    /\ NotOnlyWriteBit
    /\ UNCHANGED <<original, history, onlyReadBit, message, generator, iterated>>

WriteBytesArray ==
    /\ obj = "Writer"
    /\ \E arg \in ByteArrays(message, Len(written)) :
        /\ Returns([name |-> "writeBytes", form |-> "array", bytes |-> arg],
                   writeBytesArray(This, arg))
        /\ written' = written \o Taken(BitsOfBytes(arg))
    /\ NotOnlyWriteBit
    /\ UNCHANGED <<original, obj, history, onlyReadBit, message, generator, iterated>>

\* The number passed holds the next n bytes of the message, 3 at most. A
\* Writer that was asked for more bytes than the 4 of a bitwise operand is not
\* followed any further.
WriteBytesNumber ==
    /\ obj = "Writer"
    /\ \E n \in ByteNumberCounts :
        \E arg \in {[bytes |-> ValueOf(NextBits(message, Len(written), Min(8 * n, 24))),
                      n |-> n]} :
            /\ Returns([name |-> "writeBytes", form |-> "number",
                        byteNumber |-> arg.bytes, n |-> arg.n],
                       writeBytesNumber(This, arg.bytes, arg.n))
            /\ written' = written \o Taken(BitsOfBytes(BytesOfNumber(arg.bytes, arg.n)))
            /\ obj' = IF 8 * n > WordSize THEN "discarded" ELSE obj
    /\ NotOnlyWriteBit
    /\ UNCHANGED <<original, history, onlyReadBit, message, generator, iterated>>

\* The bits read by `count` successive calls of readBit on a Reader:
\* for (i = 0; i < count; i += 1) result.push(reader.readBit()).
readBitTimes(reader, count) ==
    For(LAMBDA at, i : LET got == readBit(at.self)
                       IN  [at EXCEPT !.self = got.self, !.result = Append(@, got.ret)],
        [self |-> reader, done |-> FALSE, result |-> << >>], 1, count)

\* The caller is done writing and reads the bits back: new Reader(dst) over
\* the array the Writer wrote into, and one readBit call for each bit that
\* was reported written.
ReadBack ==
    /\ obj = "Writer"
    /\ \E end \in {readBitTimes(NewReader(bytes), Len(written))} :
           /\ obj' = "discarded"
           /\ call' = [name |-> "readBack"]
           /\ pre' = NewReader(bytes)
           /\ index' = end.self.index
           /\ offset' = end.self.offset
           /\ bytes' = end.self.bytes
           /\ ret' = Void
           /\ history' = end.result
    /\ UNCHANGED <<original, onlyReadBit, message, written, writeBitHistory,
                   onlyWriteBit, generator, iterated>>

\* The calls on a Reader.
ReaderNext ==
    \/ ReadBit
    \/ ReadBits
    \/ ReadByte
    \/ ReadBytes
    \/ ReadAll
    \/ ReadBitsSafe
    \/ Queries
    \/ IteratorStart
    \/ IteratorNext

\* The calls on a Writer, and the reading back of what it wrote.
WriterNext ==
    \/ WriteBit
    \/ WriteBitsArray
    \/ WriteByte
    \/ WriteBitsNumber
    \/ WriteBytesArray
    \/ WriteBytesNumber
    \/ ReadBack

Next == ReaderNext \/ WriterNext

\* Readers and Writers.
Spec == Init /\ [][Next]_vars

\* Readers alone, and Writers alone.
ReaderSpec == ReaderInit /\ [][ReaderNext]_vars
WriterSpec == WriterInit /\ [][WriterNext]_vars

\* A caller that holds a generator goes on calling next() while that moves
\* the generator or the cursor on, as a for...of loop or a spread over the
\* Reader does until the generator is done.
FairSpec == ReaderSpec /\ WF_<<generator, index, offset>>(IteratorNext)

\* ------------------------------------------------------------------------
\* Vocabulary of the properties
\* ------------------------------------------------------------------------
\* The number of bits of the typed array of `self`.
TotalBits(self) == Len(self.bytes.elems) * 8 * self.bytes.BYTES_PER_ELEMENT

\* The number of bits the cursor of `self` has passed.
ConsumedBits(self) ==
    (self.index * 8 * self.bytes.BYTES_PER_ELEMENT) + (self.offset - 1)

\* Bit k (k = 0 for the first bit) of the array in reading order: elements in
\* index order, most significant bit first.
BitAt(arr, k) ==
    LET bitsPerCell == 8 * arr.BYTES_PER_ELEMENT
    IN  IF (bitsPerCell - 1 - (k % bitsPerCell)) \in arr.elems[(k \div bitsPerCell) + 1]
        THEN 1 ELSE 0

\* The `count` bits of the array from bit k on, in reading order.
BitsFrom(arr, k, count) == [i \in 1..count |-> BitAt(arr, k + i - 1)]

IsRangeError(r) == r.tag = "RangeError"

\* C1: on a Reader on which only readBit has been called, the k-th call
\* returned bit k - 1 of the array in reading order (elements in index order,
\* most significant bit first) while k <= length * bitsPerCell, and null for
\* every later call.
C1_ReadBitOrder ==
    (obj = "Reader" /\ onlyReadBit) =>
        \A k \in 1..Len(history) :
            history[k] = IF k <= Capacity THEN Number(BitAt(bytes, k - 1)) ELSE Null

\* C1 witness: a Uint32Array of two elements read to its end and one call
\* further, the first bit read being 1.
C1_Witness ==
    /\ obj = "Reader" /\ onlyReadBit
    /\ bytes.BYTES_PER_ELEMENT = 4 /\ Len(bytes.elems) = 2
    /\ Len(history) = Capacity + 1
    /\ history[1] = Number(1)
    /\ history[Capacity + 1] = Null

\* C2: the bits read back by a fresh Reader from the zero-filled array a
\* Writer wrote into, one readBit call per bit reported written, are exactly
\* the bits written, in order.
C2_RoundTrip ==
    (call.name = "readBack" /\ ZeroFilled) =>
        history = [k \in 1..Len(written) |-> Number(written[k])]

\* C2 witness: a Uint32Array of two elements written to capacity with a
\* message holding both 0 and 1 bits, then read back.
C2_Witness ==
    /\ call.name = "readBack" /\ ZeroFilled
    /\ bytes.BYTES_PER_ELEMENT = 4 /\ Len(bytes.elems) = 2
    /\ Len(written) = Capacity
    /\ \E i, j \in 1..Len(written) : written[i] = 0 /\ written[j] = 1

\* C3: on a Reader, 0 <= remaining() <= length * bitsPerCell and
\* cellIndex <= length in every reachable state.
C3_RemainingNeverNegative ==
    obj = "Reader" =>
        /\ 0 <= remaining(This)
        /\ remaining(This) <= Capacity
        /\ index <= Len(bytes.elems)

\* The number of bits of the array the last call read or wrote, from what the
\* call returned: nothing for a null, a false, a failure, or a byte read when
\* no byte was left.
BitsTransferred ==
    CASE call.name = "readBit"   -> IF ret = Null THEN 0 ELSE 1
      [] call.name = "readBits"  -> IF IsRangeError(ret) THEN 0 ELSE call.n
      [] call.name = "readAll"   -> IF IsRangeError(ret) \/ remaining(pre) < 0
                                    THEN 0 ELSE remaining(pre)
      [] call.name = "readByte"  -> IF IsRangeError(ret) \/ remaining(pre) < 8
                                    THEN 0 ELSE 8
      [] call.name = "readBytes" -> IF IsRangeError(ret) THEN 0 ELSE 8 * Len(ret.val)
      [] call.name = "writeBit"  -> IF ret.val THEN 1 ELSE 0
      [] call.name = "writeBits" -> IF IsRangeError(ret) THEN 0 ELSE ret.val
      [] call.name = "writeByte" -> IF IsRangeError(ret) \/ ~ret.val THEN 0 ELSE 8
      [] call.name = "writeBytes" -> IF IsRangeError(ret) THEN 0 ELSE 8 * ret.val
      [] OTHER -> 0

\* C4: remaining() after a Reader or Writer call is remaining() before the
\* call minus the number of bits the call read or wrote; a call that returns
\* null, false or 0, or fails, leaves remaining() unchanged.
C4_RemainingDecreasesByTransfer ==
    call.name \notin {"constructor", "readBack"} =>
        remaining(This) = remaining(pre) - BitsTransferred

\* C5: readBits(n) with n > remaining() throws the RangeError and leaves the
\* cursor as it was before the call.
C5_ReadBitsAtomicFailure ==
    (call.name = "readBits" /\ call.n > remaining(pre)) =>
        /\ ret = RangeError("n exceeds the number of remaining bits")
        /\ This = pre

\* C5 witness: a readBits call for more bits than remain, on a Reader that
\* has read part of an element and still has bits to read.
C5_Witness ==
    /\ call.name = "readBits"
    /\ call.n > remaining(pre)
    /\ remaining(pre) > 0
    /\ pre.offset > 1
    /\ IsRangeError(ret)

\* C6: readByte() and writeByte(b) with b in [0, 256) throw the partial-byte
\* RangeError exactly when the number of bits consumed so far is not a
\* multiple of 8, and a call that throws leaves the array and the cursor
\* unchanged.
C6_MisalignedExactly ==
    /\ call.name = "readByte" =>
        /\ (ret = RangeError("Cannot read a partial byte as a full byte"))
              <=> (ConsumedBits(pre) % 8 # 0)
        /\ IsRangeError(ret) => This = pre
    /\ (call.name = "writeByte" /\ call.b \in 0..255) =>
        /\ (ret = RangeError("Cannot write a full byte with a pending partial byte"))
              <=> (ConsumedBits(pre) % 8 # 0)
        /\ IsRangeError(ret) => This = pre

\* C6 witness: writeByte is accepted at bit 8 of a 16-bit element, after the
\* 8 bits of the first byte have been written.
C6_Witness ==
    /\ call.name = "writeByte"
    /\ call.b \in 0..255
    /\ bytes.BYTES_PER_ELEMENT = 2
    /\ pre.offset = 9
    /\ ret = Boolean(TRUE)
    /\ Len(written) = 16

\* C7: readByte() on a byte-aligned Reader with no bytes remaining returns
\* null and leaves the cursor unchanged.
C7_ReadByteAtEnd ==
    (call.name = "readByte" /\ remaining(pre) = 0) =>
        /\ ret = Null
        /\ This = pre

\* The byte made of the 8 bits of the array from bit k on.
ByteAt(arr, k) == ValueOf(BitsFrom(arr, k, 8))

\* C8: readBytes(n) on a byte-aligned Reader returns exactly n elements: the
\* next bytes in order as long as bytes remain, then null.
C8_ReadBytesPads ==
    (call.name = "readBytes" /\ ConsumedBits(pre) % 8 = 0 /\ remaining(pre) >= 0) =>
        /\ ret.tag = "array"
        /\ Len(ret.val) = call.n
        /\ \A k \in 1..call.n :
              ret.val[k] = IF k <= remaining(pre) \div 8
                           THEN Number(ByteAt(bytes, ConsumedBits(pre) + 8 * (k - 1)))
                           ELSE Null

\* Reader.collectBits: result = (result << 1) | bit for each bit in turn.
collectBits(bits) ==
    Int32Value(
        For(LAMBDA at, i : [at EXCEPT !.result =
                                BitOr(ShiftLeft(at.result, 1), ToInt32(bits[i]))],
            [done |-> FALSE, result |-> ToInt32(0)], 1, Len(bits)).result)

\* The bits n successive readBit calls return on a Reader in the state `self`.
ReadBitValues(self, n) ==
    LET got == readBitTimes(self, n).result
    IN  [i \in 1..n |-> got[i].val]

\* C9: whenever 0 <= n <= remaining(), readBits(n) returns the integer that
\* folding result = (result << 1) | bit over the results of n successive
\* readBit calls from the same position gives.
C9_PackingConsistency ==
    (call.name = "readBits" /\ call.n >= 0 /\ call.n <= remaining(pre)) =>
        ret = Number(collectBits(ReadBitValues(pre, call.n)))

\* C10: readBits(n) with 0 <= n <= min(remaining(), 32) returns the
\* non-negative number whose n binary digits are the bits read, most
\* significant first.
C10_ReadBitsUnsigned ==
    (call.name = "readBits" /\ call.n >= 0 /\ call.n <= remaining(pre) /\ call.n <= 32) =>
        /\ ret.tag = "number"
        /\ ret.val >= 0
        /\ OneBits(ret.val, 0) =
              {call.n - i : i \in {j \in 1..call.n : BitAt(bytes, ConsumedBits(pre) + j - 1) = 1}}

\* C11: readByte() on a byte-aligned Reader with at least 8 bits remaining
\* returns the byte made of the next 8 bits, most significant first, which is
\* what readBits(8) returns at that position, and moves the cursor by 8 bits.
C11_ReadByteMsbFirst ==
    (call.name = "readByte" /\ ConsumedBits(pre) % 8 = 0 /\ remaining(pre) >= 8) =>
        /\ ret = Number(ByteAt(bytes, ConsumedBits(pre)))
        /\ ret = readBits(pre, 8).ret
        /\ ConsumedBits(This) = ConsumedBits(pre) + 8
        /\ remaining(This) = remaining(pre) - 8
        /\ bytes = pre.bytes

\* C11 witness: the four bytes of the element 0xAB123456 of a Uint32Array
\* have been read one by one, the last readByte call returning 0x56.
C11_Witness ==
    /\ call.name = "readByte"
    /\ bytes.BYTES_PER_ELEMENT = 4 /\ Len(bytes.elems) = 2
    /\ pre.index = 0 /\ pre.offset = 25
    /\ ByteAt(bytes, 0) = 171
    /\ ret = Number(86)
    /\ index = 1 /\ offset = 1

\* C12: on a Writer on which only writeBit has been called, the k-th call
\* returned true exactly while k <= length * bitsPerCell, the cursor is past
\* as many bits as calls returned true, and a call that returned false left
\* the array and the cursor as they were.
C12_WriteBitUntilFull ==
    (obj = "Writer" /\ onlyWriteBit) =>
        /\ \A k \in 1..Len(writeBitHistory) :
              writeBitHistory[k] = Boolean(k <= Capacity)
        /\ ConsumedBits(This) = Min(Len(writeBitHistory), Capacity)
        /\ (call.name = "writeBit" /\ ret = Boolean(FALSE)) => This = pre

\* C12 witness: a Uint16Array of two elements written to its end with
\* writeBit alone, and two calls further.
C12_Witness ==
    /\ obj = "Writer" /\ onlyWriteBit
    /\ bytes.BYTES_PER_ELEMENT = 2 /\ Len(bytes.elems) = 2
    /\ Len(writeBitHistory) = Capacity + 2
    /\ writeBitHistory[Capacity] = Boolean(TRUE)
    /\ ret = Boolean(FALSE)
    /\ \E i \in 1..Len(written) : written[i] = 1

\* C13: writeBits(bits) for an array of bits, on a Writer constructed over a
\* zero-filled array, returns k = min(|bits|, remaining()), moves the cursor
\* by k bits, leaves the first k bits of the array at the k positions the
\* cursor moved over, and changes no other bit.
C13_WriteBitsArrayTruncates ==
    (call.name = "writeBits" /\ call.form = "array" /\ ZeroFilled) =>
        LET k == Min(Len(call.bits), remaining(pre))
            p == ConsumedBits(pre)
        IN  /\ ret = Number(k)
            /\ ConsumedBits(This) = p + k
            /\ BitsFrom(bytes, p, k) = SubSeq(call.bits, 1, k)
            /\ \A j \in 0..(Capacity - 1) :
                  (j < p \/ j >= p + k) => BitAt(bytes, j) = BitAt(pre.bytes, j)

\* C13 witness: an array of 17 bits, holding 0 and 1 bits, passed when fewer
\* than 17 bits remain, in the middle of an element.
C13_Witness ==
    /\ call.name = "writeBits" /\ call.form = "array" /\ ZeroFilled
    /\ Len(call.bits) = 17
    /\ remaining(pre) \in 1..16
    /\ pre.offset > 1
    /\ ret = Number(remaining(pre))
    /\ \E i, j \in 1..ret.val : call.bits[i] = 0 /\ call.bits[j] = 1

\* The n binary digits of value, most significant first: bit n - 1 down to
\* bit 0, zeros on the left (value < 2^31).
MsbFirstBits(value, n) ==
    [k \in 1..n |-> IF n - k >= WordSize - 1 THEN 0 ELSE (value \div 2^(n - k)) % 2]

\* C14: writeBits({ bits: value, n }) with n >= 0 returns the same count and
\* leaves the same array and cursor as writeBits(s), s being the n binary
\* digits of value, most significant first.
C14_WriteBitsFormsEquivalent ==
    (call.name = "writeBits" /\ call.form = "number" /\ call.n >= 0) =>
        Outcome(This, ret) =
            writeBitsArray(pre, MsbFirstBits(call.bitNumber, call.n))

\* C15: writeByte(b) with b in [0, 256) on a byte-aligned Writer with room
\* for a byte returns true and puts b at the 8 bits the cursor moves over;
\* the elements of the array, zero-filled at first, then hold the bytes
\* written so far most significant byte first, and zeros after them.
C15_WriteByteBigEndian ==
    (call.name = "writeByte" /\ call.b \in 0..255 /\ ZeroFilled
        /\ ConsumedBits(pre) % 8 = 0 /\ remaining(pre) >= 8) =>
        /\ ret = Boolean(TRUE)
        /\ ConsumedBits(This) = ConsumedBits(pre) + 8
        /\ ByteAt(bytes, ConsumedBits(pre)) = call.b
        /\ \A j \in 0..(Capacity - 1) :
              BitAt(bytes, j) = IF j < Len(written) THEN written[j + 1] ELSE 0

\* C15 witness: the fourth byte of the first element of a Uint32Array has
\* been written, the first byte written being 0x80 or more.
C15_Witness ==
    /\ call.name = "writeByte" /\ call.b \in 0..255 /\ ZeroFilled
    /\ bytes.BYTES_PER_ELEMENT = 4 /\ Len(bytes.elems) = 2
    /\ pre.index = 0 /\ pre.offset = 25
    /\ ret = Boolean(TRUE)
    /\ ByteAt(bytes, 0) >= 128
    /\ (WordSize - 1) \in bytes.elems[1]

\* C16: writeBits({ bits, n }) and writeBytes({ bytes, n }) with n < 0, and
\* writeByte(b) with b < 0 or b > 255, throw the RangeError of the argument
\* in every state of the cursor.
C16_MalformedRejected ==
    /\ (call.name = "writeBits" /\ call.form = "number" /\ call.n < 0) =>
          ret = RangeError("n cannot be less than 0")
    /\ (call.name = "writeBytes" /\ call.form = "number" /\ call.n < 0) =>
          ret = RangeError("n cannot be less than 0")
    /\ (call.name = "writeByte" /\ call.b \notin 0..255) =>
          ret = RangeError("b should be within [0, 256)")

\* C16 witness: writeByte(256) on a Writer with a pending partial byte.
C16_Witness ==
    /\ call.name = "writeByte" /\ call.b = 256
    /\ ConsumedBits(pre) % 8 # 0
    /\ remaining(pre) > 0
    /\ ret = RangeError("b should be within [0, 256)")

\* C17: a Writer call that throws the RangeError of an argument leaves the
\* array and the cursor as they were before the call.
C17_InvalidArgumentLeavesState ==
    (call.name \in {"writeByte", "writeBits", "writeBytes"}
        /\ ret \in { RangeError("n cannot be less than 0"),
                     RangeError("b should be within [0, 256)") }) =>
        This = pre

\* C18: writeByte(b) with b in [0, 256) on a Writer with no bit remaining
\* returns false and leaves the array and the cursor as they were.
C18_WriteByteWhenFull ==
    (call.name = "writeByte" /\ call.b \in 0..255 /\ remaining(pre) = 0) =>
        /\ ret = Boolean(FALSE)
        /\ This = pre

\* C18 witness: writeByte on a Uint16Array of two elements written to its end.
C18_Witness ==
    /\ call.name = "writeByte" /\ call.b \in 0..255
    /\ bytes.BYTES_PER_ELEMENT = 2 /\ Len(bytes.elems) = 2
    /\ Len(written) = Capacity
    /\ remaining(pre) = 0
    /\ ret = Boolean(FALSE)

\* C19: writeBytes(bytes) for an array of bytes in [0, 256) on a byte-aligned
\* Writer constructed over a zero-filled array returns k = min(|bytes|,
\* floor(remaining() / 8)), moves the cursor by 8k bits, leaves the first k
\* bytes of the array at the positions the cursor moved over, and changes no
\* other bit.
C19_WriteBytesArrayTruncates ==
    (call.name = "writeBytes" /\ call.form = "array" /\ ZeroFilled
        /\ (\A i \in 1..Len(call.bytes) : call.bytes[i] \in 0..255)
        /\ ConsumedBits(pre) % 8 = 0) =>
        LET k == Min(Len(call.bytes), remaining(pre) \div 8)
            p == ConsumedBits(pre)
        IN  /\ ret = Number(k)
            /\ ConsumedBits(This) = p + 8 * k
            /\ \A i \in 1..k : ByteAt(bytes, p + 8 * (i - 1)) = call.bytes[i]
            /\ \A j \in 0..(Capacity - 1) :
                  (j < p \/ j >= p + 8 * k) => BitAt(bytes, j) = BitAt(pre.bytes, j)

\* C19 witness: an array of 5 bytes passed when bytes have been written and
\* fewer than 5 bytes remain.
C19_Witness ==
    /\ call.name = "writeBytes" /\ call.form = "array" /\ ZeroFilled
    /\ Len(call.bytes) = 5
    /\ ConsumedBits(pre) % 8 = 0 /\ ConsumedBits(pre) > 0
    /\ remaining(pre) \in {8, 16, 24, 32}
    /\ ret = Number(remaining(pre) \div 8)
    /\ remaining(This) = 0

\* The n bytes of value, most significant first: byte n - 1 down to byte 0,
\* zeros on the left (value < 2^31).
MsbFirstBytes(value, n) ==
    [k \in 1..n |-> IF 8 * (n - k) >= WordSize - 1 THEN 0
                    ELSE (value \div 2^(8 * (n - k))) % 256]

\* C20: writeBytes({ bytes: value, n }) with n >= 0 returns the same count
\* and leaves the same array and cursor as writeBytes(a), a being the n bytes
\* of value, most significant first.
C20_WriteBytesFormsEquivalent ==
    (call.name = "writeBytes" /\ call.form = "number" /\ call.n >= 0) =>
        Outcome(This, ret) =
            writeBytesArray(pre, MsbFirstBytes(call.byteNumber, call.n))

\* The Reader as it was when the generator in use was made.
IterationFrom ==
    [bytes |-> bytes, index |-> iterated.from.index, offset |-> iterated.from.offset]

\* The results of the next() calls made so far on a generator made with r
\* bits remaining: call k <= r gave { value: bit, done: false } with the bit
\* the k-th of r successive readBit calls returns, call r + 1 gave
\* { value: r, done: true }, and the generator has returned exactly then.
IterationYieldsRemaining ==
    (obj = "Reader" /\ generator.at # "none" /\ remaining(IterationFrom) >= 0) =>
        LET r == remaining(IterationFrom)
            bits == readBitTimes(IterationFrom, r).result
        IN  /\ Len(iterated.results) <= r + 1
            /\ \A k \in 1..Len(iterated.results) :
                iterated.results[k] = IF k <= r THEN IteratorResult(bits[k], FALSE)
                                      ELSE IteratorResult(Number(r), TRUE)
            /\ (generator.at = "return") <=> (Len(iterated.results) = r + 1)

\* C21: iterating a Reader whose remaining() is r yields, step by step, the r
\* bits that r successive readBit calls return, step r + 1 is done and carries
\* r, and every iteration that is driven on reaches that step.
C21_IterationYieldsAndEnds ==
    /\ []IterationYieldsRemaining
    /\ Iterating ~> (generator.at = "return")

\* C21 witness: a generator made on a Uint16Array of two elements with 29 bits
\* remaining has returned, its 30th next() giving { value: 29, done: true }.
C21_Witness ==
    /\ obj = "Reader" /\ call.name = "next"
    /\ bytes.BYTES_PER_ELEMENT = 2 /\ Len(bytes.elems) = 2
    /\ iterated.from = [index |-> 0, offset |-> 4]
    /\ generator.at = "return"
    /\ Len(iterated.results) = 30
    /\ ret = IteratorResult(Number(29), TRUE)
    /\ \E i, j \in 1..29 : /\ iterated.results[i].value = Number(0)
                           /\ iterated.results[j].value = Number(1)

\* The number of bits the object has consumed so far. A Writer has consumed
\* the bits it took from its caller; a Reader has consumed the bits its cursor
\* has passed, which are never more than the array holds.
BitsConsumedSoFar ==
    IF obj = "Writer" THEN Len(written) ELSE Min(ConsumedBits(This), Capacity)

\* C22: whenever the cursor of a Reader or Writer is byte-aligned, byteIndex
\* equals the number of bits consumed so far divided by 8, for every element
\* width.
C22_ByteIndexCountsBytes ==
    (obj \in {"Reader", "Writer"} /\ (offset - 1) % 8 = 0) =>
        (IF obj = "Reader" THEN byteIndex(This) ELSE BitIterator_byteIndex(This))
            = BitsConsumedSoFar \div 8

\* C23: readBitsSafe(n) does not fail and returns exactly n elements: the
\* first min(n, remaining()) are the next bits of the array in reading order,
\* as successive readBit calls return them, all later ones are null; the
\* cursor ends where that many readBit calls leave it, and the array is as
\* before.
C23_ReadBitsSafePadsWithNull ==
    call.name = "readBitsSafe" =>
        LET k == IF remaining(pre) < 0 THEN 0 ELSE Min(call.n, remaining(pre))
            p == ConsumedBits(pre)
        IN  /\ ret.tag = "array"
            /\ Len(ret.val) = call.n
            /\ \A i \in 1..call.n :
                ret.val[i] = IF i <= k THEN Number(BitAt(pre.bytes, p + i - 1)) ELSE Null
            /\ ret.val = readBitTimes(pre, call.n).result
            /\ This = readBitTimes(pre, call.n).self
            /\ bytes = pre.bytes
            /\ ConsumedBits(This) = p + k

\* C23 witness: readBitsSafe(9) with 5 bits remaining in a Uint16Array of two
\* elements returned 5 bits, 0 and 1 among them, and 4 nulls.
C23_Witness ==
    /\ call.name = "readBitsSafe" /\ call.n = 9
    /\ pre.bytes.BYTES_PER_ELEMENT = 2 /\ Len(pre.bytes.elems) = 2
    /\ remaining(pre) = 5
    /\ remaining(This) = 0
    /\ \E i, j \in 1..5 : ret.val[i] = Number(0) /\ ret.val[j] = Number(1)
    /\ \A i \in 6..9 : ret.val[i] = Null

\* The last call was made on a Writer.
IsWriterCall == call.name \in {"writeBit", "writeBits", "writeByte", "writeBytes"}

\* C24: on a Writer, after any calls of writeBit, writeBits, writeByte and
\* writeBytes, whether they succeeded, were truncated or failed,
\* 0 <= index <= length, 1 <= offset <= bitsPerElement, offset = 1 whenever
\* index = length, and 0 <= remaining <= length * bitsPerElement.
C24_WriterCursorInRange ==
    (obj = "Writer" \/ IsWriterCall) =>
        /\ 0 <= index /\ index <= Len(bytes.elems)
        /\ 1 <= offset /\ offset <= BitIterator_bitsPerElement(This)
        /\ (index = Len(bytes.elems)) => (offset = 1)
        /\ 0 <= BitIterator_remaining(This)
        /\ BitIterator_remaining(This) <= Capacity

\* C24 witness: a Writer on a Uint16Array filled to its end by a truncated
\* writeBits after earlier calls.
C24_Witness ==
    /\ obj = "Writer" /\ call.name = "writeBits" /\ call.form = "array"
    /\ bytes.BYTES_PER_ELEMENT = 2 /\ Len(bytes.elems) = 2
    /\ ret.val < Len(call.bits) /\ ret.val > 0
    /\ pre.offset # 1
    /\ index = Len(bytes.elems) /\ offset = 1
    /\ BitIterator_remaining(This) = 0

\* C25: no Writer call clears a bit: every bit of the array that was 1 before
\* the call, or when the Writer was constructed, is 1 after it, whether the
\* array was zero-filled or not and whatever bit was written over it.
C25_WriterOnlySetsBits ==
    IsWriterCall =>
        \A i \in 1..Len(bytes.elems) :
            /\ pre.bytes.elems[i] \subseteq bytes.elems[i]
            /\ original.elems[i] \subseteq bytes.elems[i]

\* C25 witness: writeBit(0) succeeded at a position of a Uint16Array that
\* held a 1, and the 1 is still there.
C25_Witness ==
    /\ call.name = "writeBit" /\ call.bit = 0
    /\ ret = Boolean(TRUE)
    /\ ~ZeroFilled
    /\ bytes.BYTES_PER_ELEMENT = 2
    /\ BitAt(pre.bytes, ConsumedBits(pre)) = 1
    /\ BitAt(bytes, ConsumedBits(pre)) = 1

\* Bit i (from 1) of what was passed to the last writeBits or writeBytes call
\* in its array form, bytes most significant bit first.
PassedBit(i) ==
    IF call.name = "writeBits" THEN call.bits[i]
    ELSE (call.bytes[((i - 1) \div 8) + 1] \div 2^(7 - ((i - 1) % 8))) % 2

ReportsExhaustion ==
    CASE call.name \in {"readBit", "readByte"}    -> ret = Null
      [] call.name \in {"readBits", "readAll"}    -> ret = Number(0)
      [] call.name = "next"                       -> ret.done
      [] call.name \in {"writeBit", "writeByte"}  -> ret = Boolean(FALSE)
      [] call.name \in {"writeBits", "writeBytes"} -> ret = Number(0)

\* The calls exhaustion is claimed to absorb: readBit, readBits(0), readByte,
\* readAll, a step of the iteration and the Writer calls, with arguments that
\* are not rejected for their value.
AbsorbedCall ==
    \/ call.name \in {"readBit", "readByte", "readAll", "next", "writeBit"}
    \/ call.name = "readBits" /\ call.n = 0
    \/ call.name = "writeByte" /\ call.b \in 0..255
    \/ call.name \in {"writeBits", "writeBytes"} /\ call.form = "array"
    \/ call.name \in {"writeBits", "writeBytes"} /\ call.form = "number" /\ call.n >= 0

\* C26: once remaining() = 0, every further call of readBit, readBits(0),
\* readByte, readAll, a step of the iteration, writeBit, writeBits, writeByte
\* or writeBytes leaves the cursor and the array as they were, remaining()
\* stays 0, and the call reports exhaustion in its own way and does not throw.
C26_ExhaustionAbsorbing ==
    (AbsorbedCall /\ remaining(pre) = 0) =>
        /\ This = pre
        /\ remaining(This) = 0
        /\ ~IsRangeError(ret)
        /\ ReportsExhaustion

\* C28: no call on a Reader modifies the typed array, and reading the getters
\* remaining, byteIndex, bytesPerElement and bitsPerElement moves nothing, so
\* that reading them again gives the same values.
C28_ReaderLeavesArray ==
    obj = "Reader" =>
        /\ bytes = pre.bytes
        /\ bytes = original
        /\ call.name = "queries" => (This = pre /\ ret = QueryResults(This))

\* C28 witness: the getters were read between two steps of an iteration, in
\* the middle of the second element of a Uint16Array, after bits were read.
C28_Witness ==
    /\ obj = "Reader" /\ call.name = "queries"
    /\ generator.at = "yield"
    /\ bytes.BYTES_PER_ELEMENT = 2 /\ Len(bytes.elems) = 2
    /\ index = 1 /\ offset = 6
    /\ ret.remaining = 11 /\ ret.byteIndex = 2

\* C29: the first step of an iteration started on an exhausted Reader is done
\* with the count 0 and moves nothing; every bit an iteration yields is the
\* bit at the cursor, which that step moves one bit on, and no call on a
\* Reader moves the cursor back, so that no bit is yielded twice.
C29_IterationNotRestartable ==
    obj = "Reader" =>
        /\ ConsumedBits(This) >= ConsumedBits(pre)
        /\ (generator.at # "none" /\ Len(iterated.results) >= 1
                /\ remaining(IterationFrom) <= 0) =>
              /\ iterated.results = << IteratorResult(Number(0), TRUE) >>
              /\ generator.at = "return"
              /\ This = IterationFrom
        /\ (call.name = "next" /\ ~ret.done) =>
              /\ ret.value = Number(BitAt(bytes, ConsumedBits(pre)))
              /\ ConsumedBits(This) = ConsumedBits(pre) + 1
              /\ ConsumedBits(pre) >= ConsumedBits(IterationFrom)

\* C29 witness: on a Uint16Array of two elements read to its end, a generator
\* made at the end returned on its first step with the count 0.
C29_Witness ==
    /\ obj = "Reader" /\ call.name = "next"
    /\ bytes.BYTES_PER_ELEMENT = 2 /\ Len(bytes.elems) = 2
    /\ iterated.from = [index |-> 2, offset |-> 1]
    /\ Len(iterated.results) = 1
    /\ ret = IteratorResult(Number(0), TRUE)
    /\ This = pre

====
